---- MODULE Spec2Model ----
(***************************************************************************)
(* Model of the community-membership and job-post services of the          *)
(* jangbingo backend (CommunityService, JobPostService).                   *)
(*                                                                         *)
(* The relational store is modelled as three tables kept as sequences: a   *)
(* row's id is its index, as assigned by the SERIAL primary keys.  The     *)
(* User table, to which these services never write, is a function of the   *)
(* stored users' ids; of the modelled routes only PUT /users/:id writes it. *)
(* The                                                                     *)
(* JavaScript values undefined / null / 0 / "" are all falsy at every      *)
(* place the services test them, so an absent number is written 0 and an   *)
(* absent string "".  Where 0 is itself a value a request may carry (the    *)
(* fee percentages) an absent number is written NoValue.  A deleted row     *)
(* keeps its index, since ids are never reused, and holds no values.        *)
(***************************************************************************)
EXTENDS Integers, Sequences, FiniteSets, TLC

VARIABLES communities, members, jobPosts, users, result

vars == <<communities, members, jobPosts, users, result>>

-----------------------------------------------------------------------------
(* Bounds of the model *)

NumUsers == 3
MaxCommunities == 2
MaxJobPosts == 1
MaxCap == 2
MaxMemberCommunities == 1
NumPosters == 2
MaxEditPosts == 2
MaxFeePosts == 1
MaxSkyPosts == 1
MaxLadderPosts == 1
MaxCategoryPosts == 2
MaxPricePosts == 1
NumRequests == 2
MaxEquipmentLength == 76

Users == 1..NumUsers
\* ids a request may carry for a user: the stored users and one unknown id
UserIds == 1..(NumUsers + 1)
CommunityIds == 1..MaxCommunities
\* the users that act in Spec; every stored user reads
Posters == 1..NumPosters

-----------------------------------------------------------------------------
(* Enumerations *)

OWNER == "OWNER"
ADMIN == "ADMIN"
MODERATOR == "MODERATOR"
MEMBER == "MEMBER"
CommunityRole == {OWNER, ADMIN, MODERATOR, MEMBER}

USER == "USER"
UserRole == {USER, ADMIN}

\* The User rows that the first logins have created: role USER, no email.
RegisteredUsers == [u \in Users |-> [role |-> USER, email |-> ""]]

GLOBAL == "GLOBAL"
COMMUNITY == "COMMUNITY"
DESIGNATED == "DESIGNATED"
JobPostType == {GLOBAL, COMMUNITY, DESIGNATED}

SKY == "SKY"
LADDER == "LADDER"
JobPostCategory == {SKY, LADDER}

\* the outcome of the last service call: the operation, and the message of
\* the Error it threw ("" when it returned normally)
Outcome(op, err) == [op |-> op, err |-> err]

\* the outcome of a call that returned value (null, a boolean or a payload)
Returned(op, value) == [op |-> op, err |-> "", value |-> value]

\* undefined in a request, NULL in a column, for a number that may be 0
NoValue == -1

\* x || y for numbers
OrElse(x, y) == IF x = NoValue \/ x = 0 THEN y ELSE x

-----------------------------------------------------------------------------
(* Queries over the membership table *)

MemberIds == DOMAIN members

\* prisma.communityMember.findMany({ where: { communityId, userId } })
MembershipsOf(userId, communityId) ==
    {m \in MemberIds : members[m].userId = userId
                       /\ members[m].communityId = communityId}

\* ... with isActive: true
ActiveMembershipsOf(userId, communityId) ==
    {m \in MembershipsOf(userId, communityId) : members[m].isActive}

\* ... with isActive: true and role: { in: roles }
ActiveMembershipsWithRole(userId, communityId, roles) ==
    {m \in ActiveMembershipsOf(userId, communityId) : members[m].role \in roles}

\* prisma.communityMember.count({ where: { communityId, isActive: true } })
MemberCount(communityId) ==
    Cardinality({m \in MemberIds : members[m].communityId = communityId
                                   /\ members[m].isActive})

IsActiveMember(userId, communityId) ==
    ActiveMembershipsOf(userId, communityId) # {}

-----------------------------------------------------------------------------
(* CommunityService *)

\* The ids of the stored communities.
StoredCommunityIds == {c \in DOMAIN communities : communities[c].slug # 0}

\* maxMembers is 0 when the request carries none; the fees are NoValue then.
\* The community and the creator's membership are two writes, one after the
\* other and in no transaction.  The second is refused by the store when the
\* membership table holds a foreign key to the user table and the caller's
\* id is not a stored user (a token outlives its user); the key is not in
\* the sources, so for such a caller either outcome is taken.
createCommunity(userId, slug, maxMembers, defaultWorkFee, defaultSupportFee) ==
    /\ UNCHANGED jobPosts
    /\ IF \E c \in StoredCommunityIds : communities[c].slug = slug
       THEN /\ result' = Outcome("createCommunity", "Community slug already exists")
            /\ UNCHANGED <<communities, members>>
       ELSE /\ communities' = Append(communities,
                                     [slug |-> slug, maxMembers |-> maxMembers,
                                      defaultWorkFee |-> OrElse(defaultWorkFee, 5),
                                      defaultSupportFee |-> OrElse(defaultSupportFee, 2)])
            /\ \/ /\ members' = Append(members,
                                       [userId |-> userId,
                                        communityId |-> Len(communities) + 1,
                                        role |-> OWNER, isActive |-> TRUE])
                  /\ result' = Outcome("createCommunity", "")
               \/ /\ userId \notin Users
                  /\ UNCHANGED members
                  /\ result' = Outcome("createCommunity", "Foreign key constraint failed")

\* The request of updateCommunity: slug and maxMembers are 0, and the fees
\* NoValue, when the request carries none.
UpdateCommunityRequest(slug, maxMembers, defaultWorkFee, defaultSupportFee) ==
    [slug |-> slug, maxMembers |-> maxMembers,
     defaultWorkFee |-> defaultWorkFee, defaultSupportFee |-> defaultSupportFee]

\* The row prisma.community.update leaves: a column is written when the
\* request carries it (slug: when it is truthy).
updatedCommunity(community, data) ==
    [slug |-> IF data.slug # 0 THEN data.slug ELSE community.slug,
     maxMembers |-> IF data.maxMembers # 0 THEN data.maxMembers ELSE community.maxMembers,
     defaultWorkFee |-> IF data.defaultWorkFee # NoValue
                        THEN data.defaultWorkFee ELSE community.defaultWorkFee,
     defaultSupportFee |-> IF data.defaultSupportFee # NoValue
                           THEN data.defaultSupportFee ELSE community.defaultSupportFee]

\* The membership test of updateCommunity with every active role accepted.
mayUpdateCommunity_AnyRole(id, userId) == ActiveMembershipsOf(userId, id) # {}

\* The membership test of updateCommunity.
mayUpdateCommunity(id, userId) ==
    ActiveMembershipsWithRole(userId, id, {OWNER, ADMIN}) # {}

updateCommunity(id, userId, data) ==
    /\ UNCHANGED <<members, jobPosts>>
    /\ IF ~mayUpdateCommunity(id, userId)
       THEN /\ result' = Outcome("updateCommunity", "Insufficient permissions to update community")
            /\ UNCHANGED communities
       ELSE IF data.slug # 0 /\ \E c \in StoredCommunityIds \ {id} :
                                    communities[c].slug = data.slug
       THEN /\ result' = Outcome("updateCommunity", "Community slug already exists")
            /\ UNCHANGED communities
       ELSE /\ communities' = [communities EXCEPT ![id] = updatedCommunity(@, data)]
            /\ result' = Outcome("updateCommunity", "")

\* The rows deleted tables keep at the index of a deleted row.
DeletedCommunity ==
    [slug |-> 0, maxMembers |-> 0, defaultWorkFee |-> 0, defaultSupportFee |-> 0]

DeletedMember == [userId |-> 0, communityId |-> 0, role |-> "", isActive |-> FALSE]

DeletedJobPost ==
    [type |-> "", category |-> "", authorId |-> 0, communityId |-> 0,
     designatedUserId |-> 0, equipmentType |-> "", equipmentLength |-> 0,
     ladderType |-> "", luggageVolume |-> "", workFloor |-> "",
     overallHeight |-> "", ladderWorkDuration |-> "", workSchedule |-> "",
     workContents |-> "", basePrice |-> NoValue, withFee |-> FALSE,
     communityWorkFee |-> NoValue, communitySupportFee |-> NoValue]

\* prisma.community.delete.  The job posts of the community go with it (ON
\* DELETE CASCADE).  The foreign key of the membership table is not in the
\* sources: either the memberships go with the community as well, or the
\* store refuses the delete and the Error it throws leaves the call.
deleteCommunity(id, userId) ==
    IF ActiveMembershipsWithRole(userId, id, {OWNER}) = {}
    THEN /\ result' = Outcome("deleteCommunity", "Only community owner can delete the community")
         /\ UNCHANGED <<communities, members, jobPosts>>
    ELSE \/ /\ communities' = [communities EXCEPT ![id] = DeletedCommunity]
            /\ members' = [m \in DOMAIN members |->
                              IF members[m].communityId = id
                              THEN DeletedMember ELSE members[m]]
            /\ jobPosts' = [p \in DOMAIN jobPosts |->
                               IF jobPosts[p].communityId = id
                               THEN DeletedJobPost ELSE jobPosts[p]]
            /\ result' = Returned("deleteCommunity", TRUE)
         \/ /\ result' = Outcome("deleteCommunity", "Foreign key constraint failed")
            /\ UNCHANGED <<communities, members, jobPosts>>

\* The cap test both joinCommunity and inviteUser make before an insert:
\* community.maxMembers is set (truthy) and the active count has reached it.
ReachedMaxMembers(communityId) ==
    /\ communities[communityId].maxMembers # 0
    /\ MemberCount(communityId) >= communities[communityId].maxMembers

\* joinExisting with the row lookup's result ignored: a second row is inserted.
joinExisting_Insert(m) ==
    /\ members' = Append(members,
                          [userId |-> members[m].userId,
                           communityId |-> members[m].communityId,
                           role |-> MEMBER, isActive |-> TRUE])
    /\ result' = Outcome("joinCommunity", "")

\* The branch joinCommunity takes for a user who holds a membership row m.
joinExisting(m) ==
    IF members[m].isActive
    THEN /\ result' = Outcome("joinCommunity", "User is already a member of this community")
         /\ UNCHANGED members
    ELSE /\ members' = [members EXCEPT ![m].isActive = TRUE]
         /\ result' = Outcome("joinCommunity", "")

joinCommunity(userId, communityId) ==
    /\ UNCHANGED <<communities, jobPosts>>
    /\ IF communityId \notin StoredCommunityIds
       THEN /\ result' = Outcome("joinCommunity", "Community not found")
            /\ UNCHANGED members
       ELSE IF MembershipsOf(userId, communityId) # {}
       THEN \E m \in MembershipsOf(userId, communityId) : joinExisting(m)
       ELSE IF ReachedMaxMembers(communityId)
       THEN /\ result' = Outcome("joinCommunity", "Community has reached maximum member limit")
            /\ UNCHANGED members
       ELSE /\ members' = Append(members,
                                 [userId |-> userId, communityId |-> communityId,
                                  role |-> MEMBER, isActive |-> TRUE])
            /\ result' = Outcome("joinCommunity", "")

\* leaveFound without the test of the owner role.
leaveFound_NoOwnerTest(m) ==
    /\ members' = [members EXCEPT ![m].isActive = FALSE]
    /\ result' = Outcome("leaveCommunity", "")

\* The tail of leaveCommunity once the caller's active membership m is found.
leaveFound(m) ==
    IF members[m].role = OWNER
    THEN /\ result' = Outcome("leaveCommunity", "Community owner cannot leave the community")
         /\ UNCHANGED members
    ELSE /\ members' = [members EXCEPT ![m].isActive = FALSE]
         /\ result' = Outcome("leaveCommunity", "")

leaveCommunity(userId, communityId) ==
    /\ UNCHANGED <<communities, jobPosts>>
    /\ IF ActiveMembershipsOf(userId, communityId) = {}
       THEN /\ result' = Outcome("leaveCommunity", "User is not a member of this community")
            /\ UNCHANGED members
       ELSE \E m \in ActiveMembershipsOf(userId, communityId) : leaveFound(m)

\* data.role || CommunityRole.MEMBER
RoleOrMember(role) == IF role = "" THEN MEMBER ELSE role

\* The branch inviteUser takes for an invited user who holds a row m.
inviteExisting(m, role) ==
    IF members[m].isActive
    THEN /\ result' = Outcome("inviteUser", "User is already a member of this community")
         /\ UNCHANGED members
    ELSE /\ members' = [members EXCEPT ![m].isActive = TRUE,
                                       ![m].role = RoleOrMember(role)]
         /\ result' = Outcome("inviteUser", "")

\* data = { communityId, userId: invitedId, role? }; role "" when absent
inviteUser(userId, communityId, invitedId, role) ==
    /\ UNCHANGED <<communities, jobPosts>>
    /\ IF ActiveMembershipsWithRole(userId, communityId, {OWNER, ADMIN, MODERATOR}) = {}
       THEN /\ result' = Outcome("inviteUser", "Insufficient permissions to invite users")
            /\ UNCHANGED members
       ELSE IF invitedId \notin Users
       THEN /\ result' = Outcome("inviteUser", "User not found")
            /\ UNCHANGED members
       ELSE IF MembershipsOf(invitedId, communityId) # {}
       THEN \E m \in MembershipsOf(invitedId, communityId) : inviteExisting(m, role)
       ELSE IF ReachedMaxMembers(communityId)
       THEN /\ result' = Outcome("inviteUser", "Community has reached maximum member limit")
            /\ UNCHANGED members
       ELSE /\ members' = Append(members,
                                 [userId |-> invitedId, communityId |-> communityId,
                                  role |-> RoleOrMember(role), isActive |-> TRUE])
            /\ result' = Outcome("inviteUser", "")

\* The tail of updateMemberRole once the caller's membership a and the
\* target's active membership t are found.
updateRoleFound(a, t, role) ==
    IF members[t].role = OWNER
    THEN /\ result' = Outcome("updateMemberRole", "Cannot change owner role")
         /\ UNCHANGED members
    ELSE IF role = ADMIN /\ members[a].role # OWNER
    THEN /\ result' = Outcome("updateMemberRole", "Only owners can promote users to admin")
         /\ UNCHANGED members
    ELSE /\ members' = [members EXCEPT ![t].role = role]
         /\ result' = Outcome("updateMemberRole", "")

updateMemberRole(communityId, adminUserId, targetUserId, role) ==
    /\ UNCHANGED <<communities, jobPosts>>
    /\ IF ActiveMembershipsWithRole(adminUserId, communityId, {OWNER, ADMIN}) = {}
       THEN /\ result' = Outcome("updateMemberRole", "Insufficient permissions to update member roles")
            /\ UNCHANGED members
       ELSE IF ActiveMembershipsOf(targetUserId, communityId) = {}
       THEN /\ result' = Outcome("updateMemberRole", "User is not a member of this community")
            /\ UNCHANGED members
       ELSE \E a \in ActiveMembershipsWithRole(adminUserId, communityId, {OWNER, ADMIN}),
               t \in ActiveMembershipsOf(targetUserId, communityId) :
                updateRoleFound(a, t, role)

\* removeFound without the test of the target's owner role.
removeFound_NoOwnerTest(a, t) ==
    IF members[t].role = ADMIN /\ members[a].role # OWNER
    THEN /\ result' = Outcome("removeMember", "Only owners can remove admins")
         /\ UNCHANGED members
    ELSE /\ members' = [members EXCEPT ![t].isActive = FALSE]
         /\ result' = Outcome("removeMember", "")

\* The tail of removeMember once both memberships are found.
removeFound(a, t) ==
    IF members[t].role = OWNER
    THEN /\ result' = Outcome("removeMember", "Cannot remove community owner")
         /\ UNCHANGED members
    ELSE IF members[t].role = ADMIN /\ members[a].role # OWNER
    THEN /\ result' = Outcome("removeMember", "Only owners can remove admins")
         /\ UNCHANGED members
    ELSE /\ members' = [members EXCEPT ![t].isActive = FALSE]
         /\ result' = Outcome("removeMember", "")

removeMember(communityId, adminUserId, targetUserId) ==
    /\ UNCHANGED <<communities, jobPosts>>
    /\ IF ActiveMembershipsWithRole(adminUserId, communityId, {OWNER, ADMIN}) = {}
       THEN /\ result' = Outcome("removeMember", "Insufficient permissions to remove members")
            /\ UNCHANGED members
       ELSE IF ActiveMembershipsOf(targetUserId, communityId) = {}
       THEN /\ result' = Outcome("removeMember", "User is not a member of this community")
            /\ UNCHANGED members
       ELSE \E a \in ActiveMembershipsWithRole(adminUserId, communityId, {OWNER, ADMIN}),
               t \in ActiveMembershipsOf(targetUserId, communityId) :
                removeFound(a, t)

\* The ids of the rows of the membership table, in the order of the table;
\* a findMany returns those that satisfy its `where`.
MemberRowIds == [m \in 1..Len(members) |-> m]

\* allMembers without userId: { not: userId } in its query.
allMembers_WithCaller(userId) ==
    LET Matches(m) == /\ members[m].communityId \in
                            {members[n].communityId :
                                n \in {k \in MemberIds : members[k].userId = userId
                                                          /\ members[k].isActive}}
                      /\ members[m].isActive
    IN SelectSeq(MemberRowIds, Matches)

\* The second query of getAllUsersFromUserCommunities: the active rows of
\* the caller's communities that are not the caller's.  The order the
\* store returns them in (by user name) does not change which users the
\* result holds.
allMembers(userId) ==
    LET Matches(m) == /\ members[m].communityId \in
                            {members[n].communityId :
                                n \in {k \in MemberIds : members[k].userId = userId
                                                          /\ members[k].isActive}}
                      /\ members[m].userId # userId
                      /\ members[m].isActive
    IN SelectSeq(MemberRowIds, Matches)

\* The loop over allMembers that fills the Map uniqueUsers: the user ids in
\* the order of their first row, seen being the keys the Map holds.
RECURSIVE uniqueUsers(_, _)
uniqueUsers(rows, seen) ==
    IF rows = <<>> THEN <<>>
    ELSE IF members[Head(rows)].userId \in seen
    THEN uniqueUsers(Tail(rows), seen)
    ELSE <<members[Head(rows)].userId>>
         \o uniqueUsers(Tail(rows), seen \cup {members[Head(rows)].userId})

\* The user ids of the members getAllUsersFromUserCommunities returns.
getAllUsersFromUserCommunities(userId) == uniqueUsers(allMembers(userId), {})

-----------------------------------------------------------------------------
(* joinCommunity and inviteUser, one database call at a time.  Each request  *)
(* in flight is a record: the operation, the caller, the user who joins or   *)
(* is invited, the role of the invitation, the database call it makes next  *)
(* (pc), the membership row its lookup found (existing, 0 for none) and the *)
(* message of the Error it threw.  The requests name community 1.  result   *)
(* holds the requests in flight.                                            *)

InFlight(requests) == [op |-> "inFlight", err |-> "", requests |-> requests]

JoinRequest(userId) ==
    [op |-> "joinCommunity", caller |-> userId, userId |-> userId, role |-> "",
     pc |-> "findMembership", existing |-> 0, err |-> ""]

InviteRequest(userId, invitedId, role) ==
    [op |-> "inviteUser", caller |-> userId, userId |-> invitedId, role |-> role,
     pc |-> "findInviter", existing |-> 0, err |-> ""]

\* The request p with its next call set, and with the Error it threw.
Goto(p, pc) == [result.requests[p] EXCEPT !.pc = pc]

Thrown(p, err) == [result.requests[p] EXCEPT !.pc = "done", !.err = err]

\* The state after request p has made a call: its record, and the table.
AfterCall(p, request, table) ==
    /\ result' = InFlight([result.requests EXCEPT ![p] = request])
    /\ members' = table
    /\ UNCHANGED <<communities, jobPosts>>

\* inviteUser: the lookup of the inviter's membership and of the invited user
findInviter(p) ==
    LET r == result.requests[p] IN
    /\ r.pc = "findInviter"
    /\ IF ActiveMembershipsWithRole(r.caller, 1, {OWNER, ADMIN, MODERATOR}) = {}
       THEN AfterCall(p, Thrown(p, "Insufficient permissions to invite users"), members)
       ELSE IF r.userId \notin Users
       THEN AfterCall(p, Thrown(p, "User not found"), members)
       ELSE AfterCall(p, Goto(p, "findMembership"), members)

\* The call after the membership lookup found no row: the count when the
\* community has a cap, the insert when it has none.
AfterNoRow == IF communities[1].maxMembers # 0 THEN "count" ELSE "create"

\* prisma.communityMember.findFirst({ where: { communityId, userId } })
findMembership(p) ==
    LET r == result.requests[p] IN
    /\ r.pc = "findMembership"
    /\ IF MembershipsOf(r.userId, 1) = {}
       THEN AfterCall(p, Goto(p, AfterNoRow), members)
       ELSE \E m \in MembershipsOf(r.userId, 1) :
               IF members[m].isActive
               THEN AfterCall(p, Thrown(p, "User is already a member of this community"),
                              members)
               ELSE AfterCall(p, [result.requests[p] EXCEPT !.pc = "update", !.existing = m],
                              members)

\* prisma.communityMember.update({ where: { id: existingMembership.id } })
updateMembership(p) ==
    LET r == result.requests[p] IN
    /\ r.pc = "update"
    /\ AfterCall(p, Goto(p, "done"),
                 IF r.op = "joinCommunity"
                 THEN [members EXCEPT ![r.existing].isActive = TRUE]
                 ELSE [members EXCEPT ![r.existing].isActive = TRUE,
                                      ![r.existing].role = RoleOrMember(r.role)])

\* prisma.communityMember.count and the comparison with community.maxMembers
countMembers(p) ==
    LET r == result.requests[p] IN
    /\ r.pc = "count"
    /\ IF MemberCount(1) >= communities[1].maxMembers
       THEN AfterCall(p, Thrown(p, "Community has reached maximum member limit"), members)
       ELSE AfterCall(p, Goto(p, "create"), members)

\* prisma.communityMember.create.  Whether the table holds a unique index on
\* (userId, communityId) is not in the sources: when a row of the pair is
\* stored by now, the insert is refused or a second row is stored.
createMembership(p) ==
    LET r == result.requests[p] IN
    /\ r.pc = "create"
    /\ \/ AfterCall(p, Goto(p, "done"),
                     Append(members,
                            [userId |-> r.userId, communityId |-> 1,
                             role |-> IF r.op = "joinCommunity" THEN MEMBER
                                      ELSE RoleOrMember(r.role),
                             isActive |-> TRUE]))
       \/ /\ MembershipsOf(r.userId, 1) # {}
          /\ AfterCall(p, Thrown(p, "Unique constraint failed"), members)

-----------------------------------------------------------------------------
(* JobPostService: validation *)

\* private readonly equipmentLengths
EquipmentTypes ==
    {"1 ton", "2.5 ton", "3.5 ton", "5 ton", "18 ton", "19 ton",
     "3.5 tons of bending", "Refraction 5 tons", "Refraction 60M", "Refraction 70M"}

equipmentLengths(t) ==
    CASE t = "1 ton" -> {16, 18, 20, 21}
      [] t = "2.5 ton" -> {22, 24, 25}
      [] t = "3.5 ton" -> {28, 30, 32, 35}
      [] t = "5 ton" -> {38, 40, 45, 50, 54}
      [] t = "18 ton" -> {58, 60, 65, 70}
      [] t = "19 ton" -> {75}
      [] t = "3.5 tons of bending" -> {28}
      [] t = "Refraction 5 tons" -> {40}
      [] t = "Refraction 60M" -> {60}
      [] t = "Refraction 70M" -> {70}
      [] OTHER -> {}

Digits == {"0", "1", "2", "3", "4", "5", "6", "7", "8", "9"}

\* /^([0-1]?[0-9]|2[0-3]):[0-5][0-9]$/ over a time given as its characters
isValidTimeFormat(time) ==
    \/ /\ Len(time) = 4
       /\ time[1] \in Digits
       /\ time[2] = ":"
       /\ time[3] \in {"0", "1", "2", "3", "4", "5"}
       /\ time[4] \in Digits
    \/ /\ Len(time) = 5
       /\ \/ time[1] \in {"0", "1"} /\ time[2] \in Digits
          \/ time[1] = "2" /\ time[2] \in {"0", "1", "2", "3"}
       /\ time[3] = ":"
       /\ time[4] \in {"0", "1", "2", "3", "4", "5"}
       /\ time[5] \in Digits

HourSchedules ==
    {"1 hour", "2 hours", "3 hours", "4 hours", "5 hours", "6 hours",
     "7 hours", "8 hours", "9 hours", "10 hours", "11 hours", "12 hours"}

validSchedules ==
    {"half day morning", "half day evening", "1 day", "2 days", "3 days",
     "monthly rent"} \cup HourSchedules

\* The schedule strings requests are drawn from: the valid ones, one written
\* in mixed case, and two the list does not hold (one of them with 'hour').
ScheduleStrings == validSchedules \cup {"1 Day", "13 hours", "weekly"}

\* String.prototype.toLowerCase on ScheduleStrings
toLowerCase(s) == IF s = "1 Day" THEN "1 day" ELSE s

\* schedule.includes('hour') on ScheduleStrings
includesHour(s) == s \in HourSchedules \cup {"13 hours"}

isValidWorkSchedule(schedule) == toLowerCase(schedule) \in validSchedules

\* One row of the pricing table: the prices of the six schedules it holds.
PriceRow(halfDay, oneDay, twoDays, threeDays, monthlyRent) ==
    ("half day morning" :> halfDay) @@ ("half day evening" :> halfDay)
    @@ ("1 day" :> oneDay) @@ ("2 days" :> twoDays) @@ ("3 days" :> threeDays)
    @@ ("monthly rent" :> monthlyRent)

\* const basePrices (in KRW); an equipment type it does not hold has no row
basePrices(equipmentType) ==
    CASE equipmentType = "1 ton" -> PriceRow(50000, 80000, 150000, 220000, 2000000)
      [] equipmentType = "2.5 ton" -> PriceRow(70000, 120000, 220000, 320000, 3000000)
      [] equipmentType = "3.5 ton" -> PriceRow(90000, 160000, 300000, 440000, 4000000)
      [] equipmentType = "5 ton" -> PriceRow(120000, 220000, 420000, 620000, 6000000)
      [] equipmentType = "18 ton" -> PriceRow(180000, 350000, 680000, 1000000, 10000000)
      [] equipmentType = "19 ton" -> PriceRow(200000, 380000, 750000, 1100000, 11000000)
      [] OTHER -> <<>>

\* parseInt(workSchedule.split(' ')[0]) on the schedule strings that include
\* 'hour'
parseHours(s) ==
    CASE s = "1 hour" -> 1 [] s = "2 hours" -> 2 [] s = "3 hours" -> 3
      [] s = "4 hours" -> 4 [] s = "5 hours" -> 5 [] s = "6 hours" -> 6
      [] s = "7 hours" -> 7 [] s = "8 hours" -> 8 [] s = "9 hours" -> 9
      [] s = "10 hours" -> 10 [] s = "11 hours" -> 11 [] s = "12 hours" -> 12
      [] s = "13 hours" -> 13

\* Math.round(n / d) for n >= 0 and d > 0
Round(n, d) == (2 * n + d) \div (2 * d)

\* calculatePrice: the price of the table, or the daily rate over 8 times
\* the hours, or 0; times 1.5 for night work; rounded.
calculatePrice(equipmentType, workSchedule, isNightWork) ==
    IF workSchedule \in DOMAIN basePrices(equipmentType)
    THEN Round(basePrices(equipmentType)[workSchedule] * (IF isNightWork THEN 3 ELSE 2), 2)
    ELSE IF includesHour(workSchedule) /\ "1 day" \in DOMAIN basePrices(equipmentType)
    THEN Round(basePrices(equipmentType)["1 day"] * parseHours(workSchedule)
                  * (IF isNightWork THEN 3 ELSE 2), 16)
    ELSE 0

\* validateJobPostData: the message of the Error thrown, "" when none
validateJobPostData(data) ==
    IF data.type = COMMUNITY /\ data.communityId = 0
    THEN "Community ID is required for community job posts"
    ELSE IF data.type = DESIGNATED /\ data.designatedUserId = 0
    THEN "Designated user ID is required for designated job posts"
    ELSE ""

\* validateSkyJobPostData: the message of the Error thrown, "" when none
validateSkyJobPostData(data) ==
    IF /\ data.equipmentType # "" /\ data.equipmentLength # 0
       /\ data.equipmentLength \notin equipmentLengths(data.equipmentType)
    THEN "Invalid equipment length"
    ELSE IF data.workDateType = "CUSTOM_DATE" /\ ~data.workDate
    THEN "Work date is required when work date type is CUSTOM_DATE"
    ELSE IF data.arrivalTime # <<>> /\ ~isValidTimeFormat(data.arrivalTime)
    THEN "Invalid arrival time format"
    ELSE IF data.workSchedule # "" /\ ~isValidWorkSchedule(data.workSchedule)
    THEN "Invalid work schedule format"
    ELSE IF data.workSchedule # "" /\ includesHour(data.workSchedule)
            /\ data.customHours = 0
    THEN "Custom hours required when work schedule includes hours"
    ELSE ""

\* validateCommunityAccess without isActive: true in its query.
validateCommunityAccess_AnyRow(userId, communityId) ==
    IF MembershipsOf(userId, communityId) = {}
    THEN "User is not a member of this community"
    ELSE ""

\* validateCommunityAccess: the message of the Error thrown, "" when none
validateCommunityAccess(userId, communityId) ==
    IF ActiveMembershipsOf(userId, communityId) = {}
    THEN "User is not a member of this community"
    ELSE ""

\* getUserCommunities / the first query of validateDesignatedUserAccess:
\* the ids of the communities the user is an active member of
UserCommunityIds(userId) ==
    {members[m].communityId :
        m \in {n \in MemberIds : members[n].userId = userId /\ members[n].isActive}}

\* validateDesignatedUserAccess without communityId: { in: communityIds } in
\* its second query.
validateDesignatedUserAccess_AnyCommunity(userId, designatedUserId) ==
    IF \E m \in MemberIds :
          members[m].userId = designatedUserId /\ members[m].isActive
    THEN ""
    ELSE "Designated user is not accessible (not in any shared communities)"

\* validateDesignatedUserAccess: the message of the Error thrown, "" when none
validateDesignatedUserAccess(userId, designatedUserId) ==
    IF \E m \in MemberIds :
          /\ members[m].userId = designatedUserId
          /\ members[m].communityId \in UserCommunityIds(userId)
          /\ members[m].isActive
    THEN ""
    ELSE "Designated user is not accessible (not in any shared communities)"

\* The checks createJobPost makes before it writes, in the order it makes
\* them; the last is the store's own check of the two foreign keys.
createJobPostError(userId, data) ==
    IF validateJobPostData(data) # ""
    THEN validateJobPostData(data)
    ELSE IF data.category = SKY /\ validateSkyJobPostData(data) # ""
    THEN validateSkyJobPostData(data)
    ELSE IF data.type = COMMUNITY /\ data.communityId # 0
            /\ validateCommunityAccess(userId, data.communityId) # ""
    THEN validateCommunityAccess(userId, data.communityId)
    ELSE IF data.type = DESIGNATED /\ data.designatedUserId # 0
            /\ validateDesignatedUserAccess(userId, data.designatedUserId) # ""
    THEN validateDesignatedUserAccess(userId, data.designatedUserId)
    ELSE IF \/ data.communityId # 0 /\ data.communityId \notin StoredCommunityIds
            \/ data.designatedUserId # 0 /\ data.designatedUserId \notin Users
    THEN "Foreign key constraint failed"
    ELSE ""

\* community.defaultWorkFee ? Number(community.defaultWorkFee) : fallback.
\* The column's type is not in the sources: a stored 0 read as a Decimal
\* object is truthy and yields 0, read as a number it yields the fallback.
DefaultFee(stored, fallback) == IF stored = 0 THEN {0, fallback} ELSE {stored}

\* The pairs <<communityWorkFee, communitySupportFee>> createJobPost can
\* reach its write with.
communityFees(data) ==
    IF data.type = COMMUNITY /\ data.communityId \in StoredCommunityIds
    THEN {<<OrElse(data.communityWorkFee, w), OrElse(data.communitySupportFee, s)>> :
            w \in DefaultFee(communities[data.communityId].defaultWorkFee, 5),
            s \in DefaultFee(communities[data.communityId].defaultSupportFee, 2)}
    ELSE {<<data.communityWorkFee, data.communitySupportFee>>}

\* let calculatedPrice: null (NoValue) unless the post is of category SKY
\* and the request carries an equipment type and a work schedule.
calculatedPrice(data) ==
    IF data.category = SKY /\ data.equipmentType # "" /\ data.workSchedule # ""
    THEN calculatePrice(data.equipmentType, data.workSchedule, data.isNightWork)
    ELSE NoValue

\* The row prisma.jobPost.create stores: the columns the access rules read,
\* the equipment selection, the ladder type, the luggage volume, work floor
\* and overall height, the ladder work duration, the work schedule, the work
\* contents, the base price, the two community fees and the withFee flag.
NewJobPost(userId, data, fees) ==
    [type |-> data.type,
     category |-> data.category,
     authorId |-> userId,
     communityId |-> data.communityId,
     designatedUserId |-> data.designatedUserId,
     equipmentType |-> data.equipmentType,
     equipmentLength |-> data.equipmentLength,
     ladderType |-> data.ladderType,
     luggageVolume |-> data.luggageVolume,
     workFloor |-> data.workFloor,
     overallHeight |-> data.overallHeight,
     ladderWorkDuration |-> data.ladderWorkDuration,
     workSchedule |-> data.workSchedule,
     workContents |-> data.workContents,
     basePrice |-> calculatedPrice(data),
     withFee |-> IF data.withFee # <<>> THEN data.withFee[1] ELSE TRUE,
     communityWorkFee |-> OrElse(fees[1], NoValue),
     communitySupportFee |-> OrElse(fees[2], NoValue)]

createJobPost(userId, data) ==
    /\ UNCHANGED <<communities, members>>
    /\ result' = Outcome("createJobPost", createJobPostError(userId, data))
    /\ IF createJobPostError(userId, data) # ""
       THEN UNCHANGED jobPosts
       ELSE \E fees \in communityFees(data) :
               jobPosts' = Append(jobPosts, NewJobPost(userId, data, fees))

-----------------------------------------------------------------------------
(* JobPostService: reads.  A read changes nothing, so it is an operator on   *)
(* the state; userId 0 is a call without a caller (userId undefined).       *)

null == [id |-> 0]

\* The ids of the stored job posts.
JobPostIds == {id \in DOMAIN jobPosts : jobPosts[id] # DeletedJobPost}

formatJobPostResponse(id) ==
    [id |-> id,
     type |-> jobPosts[id].type,
     category |-> jobPosts[id].category,
     authorId |-> jobPosts[id].authorId,
     communityId |-> jobPosts[id].communityId,
     designatedUserId |-> jobPosts[id].designatedUserId,
     equipmentType |-> jobPosts[id].equipmentType,
     equipmentLength |-> jobPosts[id].equipmentLength,
     ladderType |-> jobPosts[id].ladderType,
     luggageVolume |-> jobPosts[id].luggageVolume,
     workFloor |-> jobPosts[id].workFloor,
     overallHeight |-> jobPosts[id].overallHeight,
     ladderWorkDuration |-> jobPosts[id].ladderWorkDuration,
     workSchedule |-> jobPosts[id].workSchedule,
     workContents |-> jobPosts[id].workContents,
     basePrice |-> OrElse(jobPosts[id].basePrice, NoValue),
     withFee |-> jobPosts[id].withFee,
     communityWorkFee |-> OrElse(jobPosts[id].communityWorkFee, NoValue),
     communitySupportFee |-> OrElse(jobPosts[id].communitySupportFee, NoValue)]

hasAccessToJobPost(jobPost, userId) ==
    IF jobPost.type = GLOBAL THEN TRUE
    ELSE IF jobPost.type = DESIGNATED /\ jobPost.designatedUserId = userId THEN TRUE
    ELSE IF jobPost.type = COMMUNITY THEN TRUE
    ELSE FALSE

getJobPostById(id, userId) ==
    IF id \notin JobPostIds THEN null
    ELSE IF userId # 0 /\ ~hasAccessToJobPost(jobPosts[id], userId) THEN null
    ELSE formatJobPostResponse(id)

\* The `where` object getJobPosts builds: each key is "" / 0 when not set;
\* or is TRUE when where.OR holds the three access alternatives.
JobPostsWhere(filters, userId) ==
    [type |-> IF filters.communityId = 0 /\ userId = 0 THEN GLOBAL ELSE filters.type,
     category |-> filters.category,
     authorId |-> filters.authorId,
     communityId |-> filters.communityId,
     or |-> filters.communityId = 0 /\ userId # 0]

\* Whether a job_post row matches the `where` object.
MatchesWhere(p, where, userId) ==
    /\ where.type # "" => p.type = where.type
    /\ where.category # "" => p.category = where.category
    /\ where.authorId # 0 => p.authorId = where.authorId
    /\ where.communityId # 0 => p.communityId = where.communityId
    /\ where.or =>
          \/ p.type = GLOBAL
          \/ p.type = COMMUNITY /\ p.communityId \in UserCommunityIds(userId)
          \/ p.type = DESIGNATED /\ p.designatedUserId = userId

\* The ids of the posts getJobPosts returns (it returns them newest first).
getJobPosts(filters, userId) ==
    {id \in JobPostIds :
        MatchesWhere(jobPosts[id], JobPostsWhere(filters, userId), userId)}

-----------------------------------------------------------------------------
(* JobPostService: update and delete *)

\* updateData with the post's community link cleared as well.
updateData_ClearsCommunity(jobPost, data) ==
    [jobPost EXCEPT !.category = IF data.category # "" THEN data.category ELSE @,
                    !.communityId = 0]

\* The row prisma.jobPost.update leaves: updateData holds the category of
\* the request when it carries one, and nothing else.
updateData(jobPost, data) ==
    [jobPost EXCEPT !.category = IF data.category # "" THEN data.category ELSE @]

updateJobPost(id, userId, data) ==
    /\ UNCHANGED <<communities, members>>
    /\ IF id \notin JobPostIds \/ jobPosts[id].authorId # userId
       THEN /\ result' = Returned("updateJobPost", null)
            /\ UNCHANGED jobPosts
       ELSE /\ jobPosts' = [jobPosts EXCEPT ![id] = updateData(@, data)]
            /\ result' = Returned("updateJobPost", formatJobPostResponse(id)')

\* The test deleteJobPost makes of the caller, without the author comparison.
deleteRefused_NoAuthorTest(id, userId) == id \notin JobPostIds

\* !jobPost || jobPost.authorId !== userId
deleteRefused(id, userId) ==
    id \notin JobPostIds \/ jobPosts[id].authorId # userId

deleteJobPost(id, userId) ==
    /\ UNCHANGED <<communities, members>>
    /\ IF deleteRefused(id, userId)
       THEN /\ result' = Returned("deleteJobPost", FALSE)
            /\ UNCHANGED jobPosts
       ELSE /\ jobPosts' = [jobPosts EXCEPT ![id] = DeletedJobPost]
            /\ result' = Returned("deleteJobPost", TRUE)

-----------------------------------------------------------------------------
(* Requests *)

\* The SKY fields of a create request.
SkyFields(equipmentType, equipmentLength, workDateType, workDate, arrivalTime, workSchedule, customHours) ==
    [equipmentType |-> equipmentType, equipmentLength |-> equipmentLength,
     workDateType |-> workDateType, workDate |-> workDate,
     arrivalTime |-> arrivalTime, workSchedule |-> workSchedule,
     customHours |-> customHours]

NoSkyFields == SkyFields("", 0, "", FALSE, <<>>, "", 0)

\* The SKY payloads the requests of Spec carry: none, a valid one, one whose
\* length is not a length of its equipment type, one with a malformed time.
SkyPayloads ==
    {NoSkyFields,
     SkyFields("1 ton", 18, "CUSTOM_DATE", TRUE, <<"6", ":", "3", "0">>, "1 day", 0),
     SkyFields("1 ton", 19, "", FALSE, <<>>, "", 0),
     SkyFields("5 ton", 40, "", FALSE, <<"2", "5", ":", "0", "0">>, "2 hours", 2)}

\* The fee fields of a create request: withFee is <<>> when absent.
FeeFields(withFee, communityWorkFee, communitySupportFee) ==
    [withFee |-> withFee, communityWorkFee |-> communityWorkFee,
     communitySupportFee |-> communitySupportFee]

\* The ladder fields of a create request.
LadderFields(ladderType, luggageVolume, workFloor, overallHeight, ladderWorkDuration, workContents) ==
    [ladderType |-> ladderType, luggageVolume |-> luggageVolume,
     workFloor |-> workFloor, overallHeight |-> overallHeight,
     ladderWorkDuration |-> ladderWorkDuration, workContents |-> workContents]

NoLadderFields == LadderFields("", "", "", "", "", "")

\* The request the service receives: the scope, and the three field groups;
\* it carries no isNightWork flag.
ServiceRequest(type, category, communityId, designatedUserId, sky, ladder, fee) ==
    [type |-> type, category |-> category,
     communityId |-> communityId, designatedUserId |-> designatedUserId,
     equipmentType |-> sky.equipmentType, equipmentLength |-> sky.equipmentLength,
     workDateType |-> sky.workDateType, workDate |-> sky.workDate,
     arrivalTime |-> sky.arrivalTime, workSchedule |-> sky.workSchedule,
     customHours |-> sky.customHours, isNightWork |-> FALSE,
     ladderType |-> ladder.ladderType,
     luggageVolume |-> ladder.luggageVolume,
     workFloor |-> ladder.workFloor,
     overallHeight |-> ladder.overallHeight,
     ladderWorkDuration |-> ladder.ladderWorkDuration,
     workContents |-> ladder.workContents,
     withFee |-> fee.withFee, communityWorkFee |-> fee.communityWorkFee,
     communitySupportFee |-> fee.communitySupportFee]

NoFeeFields == FeeFields(<<>>, NoValue, NoValue)

CreateJobPostRequestWithFees(type, category, communityId, designatedUserId, sky, fee) ==
    ServiceRequest(type, category, communityId, designatedUserId, sky, NoLadderFields, fee)

CreateJobPostRequest(type, category, communityId, designatedUserId, sky) ==
    CreateJobPostRequestWithFees(type, category, communityId, designatedUserId, sky, NoFeeFields)

\* The create requests of Spec: every type, category, community id (0 when
\* absent; MaxCommunities ids, created or not) and designated user id (0 when
\* absent; the stored users and one unknown id).
CreateRequests ==
    {CreateJobPostRequest(t, LADDER, c, d, NoSkyFields) :
        t \in JobPostType, c \in 0..MaxCommunities, d \in 0..(NumUsers + 1)}
    \cup
    {CreateJobPostRequest(x[1], SKY, x[2], x[3], x[4]) :
        x \in JobPostType \X (0..MaxCommunities) \X (0..(NumUsers + 1)) \X SkyPayloads}

JobPostFilters ==
    [type : JobPostType \cup {""}, category : JobPostCategory \cup {""},
     communityId : 0..MaxCommunities, authorId : 0..NumUsers]

\* The create requests of SpecEdit: every type and category, for the one
\* community and for the users that act.
EditCreateRequests ==
    {CreateJobPostRequest(t, cat, c, d, NoSkyFields) :
        t \in JobPostType, cat \in JobPostCategory,
        c \in 0..MaxMemberCommunities, d \in {0} \cup Posters}

\* The create requests of SpecSky: GLOBAL posts of category SKY with every
\* equipment type of the table, one that is not in it and none, and with
\* every length up to MaxEquipmentLength and none (0).
SkyCreateRequests ==
    {CreateJobPostRequest(GLOBAL, SKY, 0, 0,
                          SkyFields(t, l, "", FALSE, <<>>, "", 0)) :
        t \in EquipmentTypes \cup {"10 ton", ""}, l \in 0..MaxEquipmentLength}

\* The create requests of SpecPrice: GLOBAL posts of category SKY with every
\* equipment type of the table of lengths, every schedule string, by day
\* or by night, and with the custom hours carried (the hours of the
\* schedule, 1 when it names none) or not.
PriceCreateRequests ==
    {[CreateJobPostRequest(GLOBAL, SKY, 0, 0,
                           SkyFields(x[1], 0, "", FALSE, <<>>, x[2],
                                     IF ~x[4] THEN 0
                                     ELSE IF includesHour(x[2]) THEN parseHours(x[2])
                                     ELSE 1))
        EXCEPT !.isNightWork = x[3]] :
        x \in EquipmentTypes \X ScheduleStrings \X BOOLEAN \X BOOLEAN}

\* z.number().min(0).max(100): the fee percentages requests are drawn from
MaxFee == 100
FeeValues == {0, 1, MaxFee}

\* The create requests of SpecFees: GLOBAL and COMMUNITY posts with every
\* combination of the fee fields, carried or not.
FeeCreateRequests ==
    {CreateJobPostRequestWithFees(x[1], LADDER, x[2], 0, NoSkyFields,
                                  FeeFields(x[3], x[4], x[5])) :
        x \in {GLOBAL, COMMUNITY} \X (0..MaxMemberCommunities)
               \X {<<>>, <<TRUE>>, <<FALSE>>}
               \X (FeeValues \cup {NoValue}) \X (FeeValues \cup {NoValue})}

\* The update requests of SpecAdmin: a new slug or none, a new cap or none.
AdminUpdateRequests ==
    {UpdateCommunityRequest(s, mx, NoValue, NoValue) :
        s \in {0, MaxMemberCommunities + 1}, mx \in 0..MaxCap}

\* The update requests of SpecFees: the two default fees, carried or not.
FeeUpdateRequests ==
    {UpdateCommunityRequest(0, 0, w, s) :
        w \in FeeValues \cup {NoValue}, s \in FeeValues \cup {NoValue}}

\* The update requests: the service reads the category alone ("" when the
\* request carries none).
UpdateJobPostRequests == [category : JobPostCategory \cup {""}]

-----------------------------------------------------------------------------
(* createJobPostSchema and JobPostController.createJobPost.  A request body  *)
(* is a record of the keys the schema reads; a key the body does not carry  *)
(* is <<>> and a key it carries is <<value>>.  type and category are always *)
(* carried and are written as their values; the optional numbers are        *)
(* written as the service's requests write them (0 or NoValue when absent). *)

MOVING_GOODS == "MOVING_GOODS"
ON_SITE == "ON_SITE"
LadderType == {MOVING_GOODS, ON_SITE}

PaymentMethod == {"SIGNATURE", "DIRECT_PAYMENT", "CASH"}

\* value !== undefined && value !== ''
NonEmpty(x) == x # <<>> /\ x # <<"">>

\* x || "" for a key of the body that holds a string
StringOrEmpty(x) == IF x = <<>> THEN "" ELSE x[1]

\* The condition of the refinements that apply to every LADDER post.
IsLadderFlow(body) == body.type \in JobPostType /\ body.category = LADDER

\* The paths of the issues of the object schema itself: a key of the wrong
\* type or a required key that is not carried.
ObjectIssues(body) ==
    {path \in {"type", "category", "ladderType", "equipmentLengths", "workDateType",
               "arrivalTime", "workCost", "paymentMethod", "expectedPaymentDate",
               "withFee", "communityWorkFee", "communitySupportFee",
               "siteAddress", "contactNumber", "deliveryInfo"} :
        \/ path = "type" /\ body.type \notin JobPostType
        \/ path = "category" /\ body.category \notin JobPostCategory
        \/ path = "ladderType" /\ body.ladderType # <<>>
              /\ body.ladderType[1] \notin LadderType
        \/ path = "equipmentLengths" /\ body.equipmentLengths = <<<<>>>>
        \/ path = "workDateType" /\ body.workDateType = <<>>
        \/ path = "arrivalTime" /\ body.arrivalTime = <<>>
        \/ path = "workCost" /\ (body.workCost = <<>> \/ body.workCost[1] < 0)
        \/ path = "paymentMethod" /\ (body.paymentMethod = <<>>
                                        \/ body.paymentMethod[1] \notin PaymentMethod)
        \/ path = "expectedPaymentDate" /\ body.expectedPaymentDate = <<>>
        \/ path = "withFee" /\ body.withFee = <<>>
        \/ path = "communityWorkFee" /\ body.communityWorkFee \notin 0..MaxFee \cup {NoValue}
        \/ path = "communitySupportFee"
              /\ body.communitySupportFee \notin 0..MaxFee \cup {NoValue}
        \/ path = "siteAddress" /\ body.siteAddress = <<>>
        \/ path = "contactNumber" /\ body.contactNumber = <<>>
        \/ path = "deliveryInfo" /\ body.deliveryInfo = <<>>}

\* The workContents refinement with the carve-out for MOVING_GOODS left out.
workContentsRefine_NoCarveOut(body) == NonEmpty(body.workContents)

\* The first refinement: workContents is required for every flow except
\* GLOBAL / DESIGNATED, LADDER, MOVING_GOODS.
workContentsRefine(body) ==
    IF body.type \in {GLOBAL, DESIGNATED} /\ body.category = LADDER
       /\ body.ladderType = <<MOVING_GOODS>>
    THEN TRUE
    ELSE NonEmpty(body.workContents)

\* The workSchedule refinement: required for LADDER posts of ladder type ON_SITE.
workScheduleRefine(body) ==
    IF IsLadderFlow(body) /\ body.ladderType = <<ON_SITE>>
    THEN NonEmpty(body.workSchedule)
    ELSE TRUE

\* The paths of the refinements that fail.
RefineIssues(body) ==
    {path \in {"workContents", "luggageVolume", "workFloor", "machineType",
               "overallHeight", "options", "workDateType", "arrivalTime",
               "workSchedule", "workCost", "paymentMethod", "expectedPaymentDate",
               "withFee", "siteAddress", "contactNumber", "deliveryInfo"} :
        \/ path = "workContents" /\ ~workContentsRefine(body)
        \/ path = "workSchedule" /\ ~workScheduleRefine(body)
        \/ /\ IsLadderFlow(body)
           /\ \/ path = "luggageVolume" /\ ~NonEmpty(body.luggageVolume)
              \/ path = "workFloor" /\ ~NonEmpty(body.workFloor)
              \/ path = "machineType" /\ ~NonEmpty(body.machineType)
              \/ path = "overallHeight" /\ ~NonEmpty(body.overallHeight)
              \/ path = "options" /\ body.options = <<>>
              \/ path = "workDateType" /\ ~NonEmpty(body.workDateType)
              \/ path = "arrivalTime" /\ ~NonEmpty(body.arrivalTime)
              \/ path = "workCost" /\ (body.workCost = <<>> \/ body.workCost[1] < 0)
              \/ path = "paymentMethod" /\ body.paymentMethod = <<>>
              \/ path = "expectedPaymentDate" /\ ~NonEmpty(body.expectedPaymentDate)
              \/ path = "withFee" /\ body.withFee = <<>>
              \/ path = "siteAddress" /\ ~NonEmpty(body.siteAddress)
              \/ path = "contactNumber" /\ ~NonEmpty(body.contactNumber)
              \/ path = "deliveryInfo" /\ ~NonEmpty(body.deliveryInfo)}

\* createJobPostSchema.safeParse(body): the paths of the issues, {} when the
\* parse succeeds.  The refinements run on an object that parsed.
createJobPostSchema(body) ==
    IF ObjectIssues(body) # {} THEN ObjectIssues(body) ELSE RefineIssues(body)

\* The characters of the arrival times the bodies carry.
TimeChars(time) ==
    CASE time = "06:30" -> <<"0", "6", ":", "3", "0">>
      [] time = "14:30" -> <<"1", "4", ":", "3", "0">>
      [] time = "25:00" -> <<"2", "5", ":", "0", "0">>
      [] OTHER -> <<>>

\* validationResult.data as the service reads it: the service reads
\* equipmentLength and workDate, keys the strict schema does not admit.
ValidatedData(body) ==
    ServiceRequest(body.type, body.category, body.communityId, body.designatedUserId,
                   SkyFields(StringOrEmpty(body.equipmentType), 0,
                             StringOrEmpty(body.workDateType), FALSE,
                             TimeChars(StringOrEmpty(body.arrivalTime)),
                             StringOrEmpty(body.workSchedule), body.customHours),
                   LadderFields(StringOrEmpty(body.ladderType),
                                StringOrEmpty(body.luggageVolume),
                                StringOrEmpty(body.workFloor),
                                StringOrEmpty(body.overallHeight),
                                StringOrEmpty(body.ladderWorkDuration),
                                StringOrEmpty(body.workContents)),
                   FeeFields(body.withFee, body.communityWorkFee,
                             body.communitySupportFee))

\* JobPostController.createJobPost for an authenticated caller.
JobPostController_createJobPost(userId, body) ==
    IF createJobPostSchema(body) # {}
    THEN /\ result' = [op |-> "createJobPost", err |-> "Validation error",
                       errors |-> createJobPostSchema(body)]
         /\ UNCHANGED <<communities, members, jobPosts>>
    ELSE createJobPost(userId, ValidatedData(body))

\* A body the schema accepts in every flow: a GLOBAL post of category
\* LADDER and ladder type MOVING_GOODS that carries every key a LADDER flow
\* requires, and the work contents.
ValidBody ==
    [type |-> GLOBAL, category |-> LADDER, communityId |-> 0, designatedUserId |-> 0,
     equipmentType |-> <<>>, equipmentLengths |-> <<>>,
     ladderType |-> <<MOVING_GOODS>>, machineType |-> <<"ladder truck">>,
     luggageVolume |-> <<"1 ton">>, workFloor |-> <<"5">>, overallHeight |-> <<"15">>,
     ladderWorkDuration |-> <<>>, options |-> <<[dumpService |-> FALSE]>>,
     workDateType |-> <<"TODAY">>, arrivalTime |-> <<"06:30">>,
     workSchedule |-> <<>>, customHours |-> 0, workCost |-> <<0>>,
     paymentMethod |-> <<"CASH">>, expectedPaymentDate |-> <<"Same Day">>,
     withFee |-> <<FALSE>>, communityWorkFee |-> NoValue,
     communitySupportFee |-> NoValue,
     siteAddress |-> <<"123 Construction Site">>, contactNumber |-> <<"010-1234-5678">>,
     workContents |-> <<"Equipment installation">>, deliveryInfo |-> <<"arrive early">>]

\* The bodies of SpecLadder: every type, category and ladder type (or none),
\* with the work contents, the work schedule, the ladder work duration and
\* the site address carried, empty or absent.  A COMMUNITY post names
\* community 1 and a DESIGNATED post user 2.
LadderBodies ==
    {[ValidBody EXCEPT !.type = x[1], !.category = x[2], !.ladderType = x[3],
                       !.communityId = IF x[1] = COMMUNITY THEN 1 ELSE 0,
                       !.designatedUserId = IF x[1] = DESIGNATED THEN 2 ELSE 0,
                       !.workContents = x[4], !.workSchedule = x[5],
                       !.ladderWorkDuration = x[6], !.siteAddress = x[7]] :
        x \in JobPostType \X JobPostCategory
               \X {<<>>, <<MOVING_GOODS>>, <<ON_SITE>>}
               \X {<<>>, <<"">>, <<"Equipment installation">>}
               \X {<<>>, <<"">>, <<"1 day">>}
               \X {<<>>, <<"2 days">>}
               \X {<<>>, <<"">>, <<"123 Construction Site">>}}

-----------------------------------------------------------------------------
(* updateJobPostSchema and JobPostController.updateJobPost.  Every key of an *)
(* update body is <<>> when the body does not carry it.                      *)

\* updateJobPostSchema.safeParse(body): the paths of the issues, {} when the
\* parse succeeds.  The schema has no refinement.
updateJobPostSchema(body) ==
    {path \in {"category", "ladderType", "workDateType", "arrivalTime", "workCost",
               "paymentMethod", "expectedPaymentDate", "withFee", "siteAddress",
               "contactNumber", "workContents", "deliveryInfo"} :
        \/ path = "category" /\ body.category # <<>>
              /\ body.category[1] \notin JobPostCategory
        \/ path = "ladderType" /\ body.ladderType # <<>>
              /\ body.ladderType[1] \notin LadderType
        \/ path = "workDateType" /\ body.workDateType = <<>>
        \/ path = "arrivalTime" /\ body.arrivalTime = <<>>
        \/ path = "workCost" /\ (body.workCost = <<>> \/ body.workCost[1] < 0)
        \/ path = "paymentMethod" /\ (body.paymentMethod = <<>>
                                        \/ body.paymentMethod[1] \notin PaymentMethod)
        \/ path = "expectedPaymentDate" /\ body.expectedPaymentDate = <<>>
        \/ path = "withFee" /\ body.withFee = <<>>
        \/ path = "siteAddress" /\ body.siteAddress = <<>>
        \/ path = "contactNumber" /\ body.contactNumber = <<>>
        \/ path = "workContents" /\ body.workContents = <<>>
        \/ path = "deliveryInfo" /\ body.deliveryInfo = <<>>}

\* JobPostController.updateJobPost for an authenticated caller.
JobPostController_updateJobPost(id, userId, body) ==
    IF updateJobPostSchema(body) # {}
    THEN /\ result' = [op |-> "updateJobPost", err |-> "Validation error",
                       errors |-> updateJobPostSchema(body)]
         /\ UNCHANGED <<communities, members, jobPosts>>
    ELSE updateJobPost(id, userId, [category |-> StringOrEmpty(body.category)])

\* An update body the schema accepts: it carries every required key and no
\* category.
ValidUpdateBody ==
    [category |-> <<>>, equipmentType |-> <<>>, ladderType |-> <<>>,
     luggageVolume |-> <<>>, workFloor |-> <<>>, overallHeight |-> <<>>,
     workDateType |-> <<"TODAY">>, arrivalTime |-> <<"06:30">>, workCost |-> <<0>>,
     paymentMethod |-> <<"CASH">>, expectedPaymentDate |-> <<"Same Day">>,
     withFee |-> <<FALSE>>, siteAddress |-> <<"123 Construction Site">>,
     contactNumber |-> <<"010-1234-5678">>,
     workContents |-> <<"Equipment installation">>, deliveryInfo |-> <<"arrive early">>]

\* The update bodies of SpecCategory: a category, one that is no category, or
\* none; with the field group of the new category (the equipment type, or
\* the luggage volume, work floor and overall height) carried or not; and
\* with the work cost carried or not.
UpdateBodies ==
    {[ValidUpdateBody EXCEPT !.category = x[1], !.equipmentType = x[2],
                             !.luggageVolume = x[3],
                             !.workFloor = IF x[3] = <<>> THEN <<>> ELSE <<"5">>,
                             !.overallHeight = IF x[3] = <<>> THEN <<>> ELSE <<"15">>,
                             !.workCost = x[4]] :
        x \in {<<>>, <<SKY>>, <<LADDER>>, <<"CRANE">>} \X {<<>>, <<"1 ton">>}
               \X {<<>>, <<"1 ton">>} \X {<<>>, <<0>>}}

\* The create bodies of SpecCategory: GLOBAL posts of either category, with
\* the equipment type carried or not, and with the luggage volume, work
\* floor and overall height carried or not.
CategoryBodies ==
    {[ValidBody EXCEPT !.category = x[1], !.equipmentType = x[2],
                       !.luggageVolume = x[3],
                       !.workFloor = IF x[3] = <<>> THEN <<>> ELSE <<"5">>,
                       !.overallHeight = IF x[3] = <<>> THEN <<>> ELSE <<"15">>] :
        x \in JobPostCategory \X {<<>>, <<"1 ton">>} \X {<<>>, <<"1 ton">>}}

-----------------------------------------------------------------------------
(* The responses of CommunityController and JobPostController *)

\* The operations whose controller answers a success with 201.
CreatingOps == {"createCommunity", "joinCommunity", "inviteUser", "createJobPost"}

\* The status the catch block of the operation's controller responds with.
CaughtStatus(op) == IF op = "deleteJobPost" THEN 500 ELSE 400

\* Whether the service returned null (updateJobPost) or false (the deletes),
\* which the controllers test with `if (!value)`.
ReturnedNothing(outcome) ==
    /\ "value" \in DOMAIN outcome
    /\ \/ outcome.op = "updateJobPost" /\ outcome.value = null
       \/ outcome.op \in {"deleteJobPost", "deleteCommunity"} /\ outcome.value = FALSE

\* The status of the response the controller sends for the outcome of the
\* service call it made, or for the validation error it found itself.
ResponseStatus(outcome) ==
    IF outcome.err # "" THEN CaughtStatus(outcome.op)
    ELSE IF ReturnedNothing(outcome) THEN 404
    ELSE IF outcome.op \in CreatingOps THEN 201
    ELSE 200

-----------------------------------------------------------------------------
(* Specifications *)

Init ==
    /\ communities = <<>>
    /\ members = <<>>
    /\ jobPosts = <<>>
    /\ users = RegisteredUsers
    /\ result = Outcome("", "")

\* SpecMembers: the membership operations of CommunityService, with every
\* role a request may carry, on MaxMemberCommunities communities.
NextMembers ==
    \/ /\ Len(communities) < MaxMemberCommunities
       /\ \E u \in Users, s \in 1..MaxMemberCommunities, mx \in 0..MaxCap :
             createCommunity(u, s, mx, NoValue, NoValue)
    \/ \E u \in Users, c \in 1..MaxMemberCommunities : joinCommunity(u, c)
    \/ \E u \in Users, c \in 1..MaxMemberCommunities : leaveCommunity(u, c)
    \/ \E u \in Users, c \in 1..MaxMemberCommunities, v \in UserIds,
          r \in CommunityRole \cup {""} : inviteUser(u, c, v, r)
    \/ \E c \in 1..MaxMemberCommunities, u \in Users, v \in UserIds,
          r \in CommunityRole : updateMemberRole(c, u, v, r)
    \/ \E c \in 1..MaxMemberCommunities, u \in Users, v \in UserIds :
          removeMember(c, u, v)

SpecMembers == Init /\ [][NextMembers /\ UNCHANGED users]_vars

\* Spec: job posts over communities whose membership changes.  The job-post
\* service reads only the isActive flag of a membership, never its role or
\* the community's cap, so the communities here are created without a cap
\* and users are invited with the default role.  A community is created
\* with a slug already taken or with a fresh one.
Next ==
    \/ /\ Len(communities) < MaxCommunities
       /\ \E u \in Posters, s \in 1..(Len(communities) + 1) : createCommunity(u, s, 0, NoValue, NoValue)
    \/ \E u \in Posters, c \in CommunityIds : joinCommunity(u, c)
    \/ \E u \in Posters, c \in CommunityIds : leaveCommunity(u, c)
    \/ \E u \in Posters, c \in CommunityIds, v \in Posters \cup {NumUsers + 1} :
          inviteUser(u, c, v, "")
    \/ \E c \in CommunityIds, u \in Posters, v \in Posters : removeMember(c, u, v)
    \/ /\ Len(jobPosts) < MaxJobPosts
       /\ \E u \in Posters, data \in CreateRequests : createJobPost(u, data)

Spec == Init /\ [][Next /\ UNCHANGED users]_vars

\* SpecAdmin: the operations of SpecMembers, and the update and the delete
\* of the community by callers of every role.
NextAdmin ==
    \/ /\ Len(communities) < MaxMemberCommunities
       /\ \E u \in Users, s \in 1..MaxMemberCommunities, mx \in 0..MaxCap :
             createCommunity(u, s, mx, NoValue, NoValue)
    \/ \E u \in Users, c \in 1..MaxMemberCommunities : joinCommunity(u, c)
    \/ \E u \in Users, c \in 1..MaxMemberCommunities : leaveCommunity(u, c)
    \/ \E u \in Users, c \in 1..MaxMemberCommunities, v \in UserIds,
          r \in CommunityRole \cup {""} : inviteUser(u, c, v, r)
    \/ \E c \in 1..MaxMemberCommunities, u \in Users, v \in UserIds,
          r \in CommunityRole : updateMemberRole(c, u, v, r)
    \/ \E c \in 1..MaxMemberCommunities, u \in Users, v \in UserIds :
          removeMember(c, u, v)
    \/ \E c \in 1..MaxMemberCommunities, u \in Users, data \in AdminUpdateRequests :
          updateCommunity(c, u, data)
    \/ \E c \in 1..MaxMemberCommunities, u \in Users : deleteCommunity(c, u)

SpecAdmin == Init /\ [][NextAdmin /\ UNCHANGED users]_vars

\* SpecEdit: job posts that are created, updated and deleted, by the users
\* that act and on ids that are stored, deleted or not yet assigned.
NextEdit ==
    \/ /\ Len(communities) < MaxMemberCommunities
       /\ \E u \in Posters : createCommunity(u, Len(communities) + 1, 0, NoValue, NoValue)
    \/ \E u \in Posters, c \in 1..MaxMemberCommunities : joinCommunity(u, c)
    \/ /\ Len(jobPosts) < MaxEditPosts
       /\ \E u \in Posters, data \in EditCreateRequests : createJobPost(u, data)
    \/ \E id \in 1..(MaxEditPosts + 1), u \in Posters, data \in UpdateJobPostRequests :
          updateJobPost(id, u, data)
    \/ \E id \in 1..(MaxEditPosts + 1), u \in Posters : deleteJobPost(id, u)

SpecEdit == Init /\ [][NextEdit /\ UNCHANGED users]_vars

\* SpecSky: SKY posts created with every equipment selection, and deleted.
NextSky ==
    \/ /\ Len(jobPosts) < MaxSkyPosts
       /\ \E data \in SkyCreateRequests : createJobPost(1, data)
    \/ \E id \in 1..MaxSkyPosts : deleteJobPost(id, 1)

SpecSky == Init /\ [][NextSky /\ UNCHANGED users]_vars

\* A create request on its way to the controller.
Request(body) == [op |-> "request", err |-> "", body |-> body]

\* SpecLadder: a create request of user 1 reaches the controller, over the
\* empty store and over the store user 1 leaves by creating community 1
\* that user 2 then joins.
InitLadder ==
    /\ \/ communities = <<>> /\ members = <<>>
       \/ /\ communities = <<[slug |-> 1, maxMembers |-> 0,
                             defaultWorkFee |-> 5, defaultSupportFee |-> 2]>>
          /\ members = <<[userId |-> 1, communityId |-> 1, role |-> OWNER, isActive |-> TRUE],
                         [userId |-> 2, communityId |-> 1, role |-> MEMBER, isActive |-> TRUE]>>
    /\ jobPosts = <<>>
    /\ users = RegisteredUsers
    /\ \E body \in LadderBodies : result = Request(body)

NextLadder ==
    /\ result.op = "request"
    /\ Len(jobPosts) < MaxLadderPosts
    /\ JobPostController_createJobPost(1, result.body)

SpecLadder == InitLadder /\ [][NextLadder /\ UNCHANGED users]_vars

\* SpecFees: the fees of the posts of a community whose default fees are
\* set at creation and changed by its owner.
NextFees ==
    \/ /\ Len(communities) < MaxMemberCommunities
       /\ \E w \in FeeValues \cup {NoValue}, s \in FeeValues \cup {NoValue} :
             createCommunity(1, Len(communities) + 1, 0, w, s)
    \/ \E c \in 1..MaxMemberCommunities, data \in FeeUpdateRequests :
          updateCommunity(c, 1, data)
    \/ /\ Len(jobPosts) < MaxFeePosts
       /\ \E data \in FeeCreateRequests : createJobPost(1, data)

SpecFees == Init /\ [][NextFees /\ UNCHANGED users]_vars

\* SpecErrors: the operations that throw, called by the users that act and,
\* for createCommunity, by a caller whose id is not a stored user; a
\* community is created while the table has room, or with a slug already
\* taken.  Users are invited with the default role or as ADMIN, and user 1
\* creates the job posts.
NextErrors ==
    \/ \E u \in Posters \cup {NumUsers + 1}, s \in 1..MaxMemberCommunities, mx \in 0..MaxCap :
          /\ \/ Len(communities) < MaxMemberCommunities
             \/ \E c \in StoredCommunityIds : communities[c].slug = s
          /\ createCommunity(u, s, mx, NoValue, NoValue)
    \/ \E u \in Posters, c \in 1..MaxMemberCommunities : joinCommunity(u, c)
    \/ \E u \in Posters, c \in 1..MaxMemberCommunities : leaveCommunity(u, c)
    \/ \E u \in Posters, c \in 1..MaxMemberCommunities, v \in Posters \cup {NumUsers + 1},
          r \in {"", ADMIN} : inviteUser(u, c, v, r)
    \/ \E c \in 1..MaxMemberCommunities, u \in Posters, v \in Posters \cup {NumUsers + 1},
          r \in CommunityRole : updateMemberRole(c, u, v, r)
    \/ \E c \in 1..MaxMemberCommunities, u \in Posters, v \in Posters \cup {NumUsers + 1} :
          removeMember(c, u, v)
    \/ /\ Len(jobPosts) < MaxJobPosts
       /\ \E data \in EditCreateRequests : createJobPost(1, data)

SpecErrors == Init /\ [][NextErrors /\ UNCHANGED users]_vars

\* SpecCategory: posts created and updated through the controller, by
\* requests the schemas accept and by requests they refuse.
NextCategory ==
    \/ /\ Len(jobPosts) < MaxCategoryPosts
       /\ \E body \in CategoryBodies : JobPostController_createJobPost(1, body)
    \/ \E id \in 1..MaxCategoryPosts, u \in Posters, body \in UpdateBodies :
          JobPostController_updateJobPost(id, u, body)

SpecCategory == Init /\ [][NextCategory /\ UNCHANGED users]_vars

\* SpecPrice: SKY posts created with every equipment type and schedule, and
\* deleted.
NextPrice ==
    \/ /\ Len(jobPosts) < MaxPricePosts
       /\ \E data \in PriceCreateRequests : createJobPost(1, data)
    \/ \E id \in 1..MaxPricePosts : deleteJobPost(id, 1)

SpecPrice == Init /\ [][NextPrice /\ UNCHANGED users]_vars

\* The requests of SpecRace: a user other than the owner joins, or the owner
\* or a user who is no member invites one, with the default role.
RaceRequests ==
    {JoinRequest(u) : u \in Users \ {1}}
    \cup {InviteRequest(x[1], x[2], "") : x \in {1, NumUsers} \X (Users \ {1})}

\* SpecRace: NumRequests requests run at once on community 1, whose owner is
\* user 1.  The community has a cap and no other row, or it has no cap and
\* the inactive row of user 2, who has left.
InitRace ==
    /\ \/ \E mx \in 1..MaxCap :
             /\ communities = <<[slug |-> 1, maxMembers |-> mx,
                                 defaultWorkFee |-> 5, defaultSupportFee |-> 2]>>
             /\ members = <<[userId |-> 1, communityId |-> 1,
                             role |-> OWNER, isActive |-> TRUE]>>
       \/ /\ communities = <<[slug |-> 1, maxMembers |-> 0,
                               defaultWorkFee |-> 5, defaultSupportFee |-> 2]>>
          /\ members = <<[userId |-> 1, communityId |-> 1,
                          role |-> OWNER, isActive |-> TRUE],
                         [userId |-> 2, communityId |-> 1,
                          role |-> MEMBER, isActive |-> FALSE]>>
    /\ jobPosts = <<>>
    /\ users = RegisteredUsers
    /\ \E requests \in [1..NumRequests -> RaceRequests] : result = InFlight(requests)

NextRace ==
    \/ \E p \in 1..NumRequests : findInviter(p)
    \/ \E p \in 1..NumRequests : findMembership(p)
    \/ \E p \in 1..NumRequests : updateMembership(p)
    \/ \E p \in 1..NumRequests : countMembers(p)
    \/ \E p \in 1..NumRequests : createMembership(p)

SpecRace == InitRace /\ [][NextRace /\ UNCHANGED users]_vars

-----------------------------------------------------------------------------
(* The User table and PUT /users/:id *)

\* The token a login signs for a stored user: the id and the role stored at
\* that moment.
generateToken(userId) == [userId |-> userId, role |-> users[userId].role]

\* The strings z.string().email() accepts, among those a request carries.
EmailStrings == {"a@x.kr"}

\* The bodies of PUT /users/:id: a key is absent, <<>>, or carries a value.
UserBodies == [role : {<<>>, <<USER>>, <<ADMIN>>, <<"ROOT">>}, email : {<<>>, <<"a@x.kr">>, <<"a">>}]

\* updateUserSchema.safeParse(body).success
updateUserSchema(body) ==
    /\ body.role # <<>> => body.role[1] \in UserRole
    /\ body.email # <<>> => body.email[1] \in EmailStrings

\* filteredData written over the stored row: every key the body defines.
UserUpdate(row, body) ==
    [role |-> IF body.role # <<>> THEN body.role[1] ELSE row.role,
     email |-> IF body.email # <<>> THEN body.email[1] ELSE row.email]

\* The handler of PUT /users/:id behind requireUser, for a request that
\* carries token.
updateUser(token, id, body) ==
    /\ UNCHANGED <<communities, members, jobPosts>>
    /\ IF token.role # ADMIN /\ token.userId # id
       THEN /\ result' = Outcome("updateUser", "You can only update your own profile")
            /\ UNCHANGED users
       ELSE IF ~updateUserSchema(body)
       THEN /\ result' = Outcome("updateUser", "Validation error")
            /\ UNCHANGED users
       ELSE IF id \notin DOMAIN users
       THEN /\ result' = Outcome("updateUser", "User not found")
            /\ UNCHANGED users
       ELSE IF /\ body.email # <<>>
               /\ body.email[1] # users[id].email
               /\ \E u \in DOMAIN users : users[u].email = body.email[1]
       THEN /\ result' = Outcome("updateUser", "Email already exists")
            /\ UNCHANGED users
       ELSE /\ users' = [users EXCEPT ![id] = UserUpdate(users[id], body)]
            /\ result' = Outcome("updateUser", "")

\* A user who has just logged in sends PUT /users/:id.
sendUpdateUser(userId, id, body) ==
    /\ result.op # "request"
    /\ result' = Request([token |-> generateToken(userId), id |-> id, body |-> body])
    /\ UNCHANGED <<communities, members, jobPosts, users>>

\* SpecUsers: stored users of either role log in and send PUT /users/:id
\* requests, which the handler serves one at a time.
InitUsers ==
    /\ communities = <<>> /\ members = <<>> /\ jobPosts = <<>>
    /\ users \in [Users -> [role : UserRole, email : {""}]]
    /\ result = Outcome("", "")

NextUsers ==
    \/ \E userId \in Users, id \in UserIds, body \in UserBodies :
          sendUpdateUser(userId, id, body)
    \/ /\ result.op = "request"
       /\ updateUser(result.body.token, result.body.id, result.body.body)

SpecUsers == InitUsers /\ [][NextUsers]_vars

-----------------------------------------------------------------------------
(* Properties *)

\* The row a createJobPost step has just stored.
Created == jobPosts'[Len(jobPosts')]

\* A createJobPost step that stored a row.
CreatedJobPost == result'.op = "createJobPost" /\ Len(jobPosts') = Len(jobPosts) + 1

\* C1: getJobPostById returns not-found for every COMMUNITY post whose
\* community the caller is not an active member of.
C1_CommunityPostHiddenFromNonMembers ==
    \A id \in DOMAIN jobPosts, u \in Users :
        (jobPosts[id].type = COMMUNITY /\ ~IsActiveMember(u, jobPosts[id].communityId))
            => getJobPostById(id, u) = null

\* C2: whatever the filters, every post getJobPosts returns to u is GLOBAL, or
\* a COMMUNITY post of a community u is an active member of, or a DESIGNATED
\* post designated to u.
C2_ListReturnsOnlyVisiblePosts ==
    \A u \in Users, filters \in JobPostFilters :
        \A id \in getJobPosts(filters, u) :
            \/ jobPosts[id].type = GLOBAL
            \/ /\ jobPosts[id].type = COMMUNITY
               /\ IsActiveMember(u, jobPosts[id].communityId)
            \/ /\ jobPosts[id].type = DESIGNATED
               /\ jobPosts[id].designatedUserId = u

\* C3: getJobPostById returns a DESIGNATED post to its author and to its
\* designated user and not-found to every other user; it returns a GLOBAL
\* post to every user.
C3_DesignatedVisibleToAuthorAndRecipient ==
    \A id \in DOMAIN jobPosts, u \in Users :
        /\ jobPosts[id].type = DESIGNATED =>
              (getJobPostById(id, u) # null
                 <=> u \in {jobPosts[id].authorId, jobPosts[id].designatedUserId})
        /\ jobPosts[id].type = GLOBAL => getJobPostById(id, u) # null

\* C10: every stored job post has a communityId iff its type is COMMUNITY and
\* a designatedUserId iff its type is DESIGNATED, and never both.
C10_ScopeFieldsMatchType ==
    \A id \in DOMAIN jobPosts :
        /\ jobPosts[id].communityId # 0 <=> jobPosts[id].type = COMMUNITY
        /\ jobPosts[id].designatedUserId # 0 <=> jobPosts[id].type = DESIGNATED
        /\ ~(jobPosts[id].communityId # 0 /\ jobPosts[id].designatedUserId # 0)

\* The membership rows of a community that hold the OWNER role.
OwnerRows(c) ==
    {m \in MemberIds : members[m].communityId = c /\ members[m].role = OWNER}

\* C4: each community has at most one membership row whose role is OWNER.
C4_AtMostOneOwner ==
    \A c \in DOMAIN communities : Cardinality(OwnerRows(c)) <= 1

\* C5: a membership whose role is OWNER is never modified: updateMemberRole
\* and removeMember that target it, by any caller, and leaveCommunity called
\* by it end in an error, and the row is the same afterwards.
C5_OwnerMembershipImmutable ==
    [][\A m \in MemberIds :
          members[m].role = OWNER =>
             /\ m \in DOMAIN members' /\ members'[m] = members[m]
             /\ (/\ result'.op = "updateMemberRole"
                 /\ \E u \in Users, r \in CommunityRole :
                       updateMemberRole(members[m].communityId, u,
                                        members[m].userId, r))
                   => result'.err # ""
             /\ (/\ result'.op = "removeMember"
                 /\ \E u \in Users :
                       removeMember(members[m].communityId, u, members[m].userId))
                   => result'.err # ""
             /\ (/\ result'.op = "leaveCommunity"
                 /\ leaveCommunity(members[m].userId, members[m].communityId))
                   => result'.err # ""]_vars

\* The last call was a removeMember that found its target to be the owner.
C5_Witness ==
    /\ result = Outcome("removeMember", "Cannot remove community owner")
    /\ \E m \in MemberIds : members[m].role = OWNER /\ members[m].isActive

\* C6: when a community's active-member count has reached its cap, no
\* joinCommunity or inviteUser call raises the count: the call ends in an
\* error and the count is unchanged.
C6_CapNeverExceededByJoinOrInvite ==
    [][\A c \in DOMAIN communities :
          (ReachedMaxMembers(c) /\ result'.op \in {"joinCommunity", "inviteUser"})
             => (result'.err # "" /\ MemberCount(c)' = MemberCount(c))]_vars

\* At most one membership row per (user, community) pair.
UniqueMemberships ==
    \A m, n \in MemberIds :
        (members[m].userId = members[n].userId
           /\ members[m].communityId = members[n].communityId) => m = n

\* C7: joinCommunity by an active member ends in an error and changes no row;
\* joinCommunity by a user whose row is inactive sets that same row active and
\* adds no row; and after every step there is at most one membership row per
\* (user, community) pair.
C7_JoinReactivatesSameRow ==
    [][/\ UniqueMemberships'
       /\ \A u \in Users, c \in DOMAIN communities :
             joinCommunity(u, c) =>
                /\ IsActiveMember(u, c) =>
                      (result'.err # "" /\ members' = members)
                /\ (MembershipsOf(u, c) # {} /\ ~IsActiveMember(u, c)) =>
                      /\ result'.err = ""
                      /\ Len(members') = Len(members)
                      /\ \A m \in MembershipsOf(u, c) :
                            members' = [members EXCEPT ![m].isActive = TRUE]]_vars

\* The last call was a joinCommunity that succeeded, and the only row that
\* can have been its caller's holds a role that an insert never gives: the
\* call set a row active again.
C7_Witness ==
    /\ result = Outcome("joinCommunity", "")
    /\ Len(members) = 2
    /\ members[1].role = OWNER /\ members[1].isActive
    /\ members[2].role = ADMIN /\ members[2].isActive

\* C8: a createJobPost call stores a COMMUNITY post only for a caller who is
\* an active member of the post's community when the call is made; a call
\* that ends in an error stores no row.
C8_CommunityPostNeedsActiveMembership ==
    [][result'.op = "createJobPost" =>
          /\ result'.err # "" => jobPosts' = jobPosts
          /\ result'.err = "" => CreatedJobPost
          /\ (CreatedJobPost /\ Created.type = COMMUNITY) =>
                IsActiveMember(Created.authorId, Created.communityId)]_vars

\* The last call was a createJobPost refused for want of a membership, in a
\* state where user 1 is an active member of every community a request can
\* name and user 2 holds only an inactive row: the caller was user 2.
C8_Witness ==
    /\ result = Outcome("createJobPost", "User is not a member of this community")
    /\ Len(communities) = MaxCommunities
    /\ \A c \in CommunityIds : IsActiveMember(1, c)
    /\ MembershipsOf(2, 1) # {} /\ ~IsActiveMember(2, 1)

\* C9: a createJobPost call stores a DESIGNATED post only when the caller and
\* the designated user are both active members of one same community when
\* the call is made; a call that ends in an error stores no row.
C9_DesignatedPostNeedsSharedCommunity ==
    [][result'.op = "createJobPost" =>
          /\ result'.err # "" => jobPosts' = jobPosts
          /\ (CreatedJobPost /\ Created.type = DESIGNATED) =>
                \E c \in DOMAIN communities :
                    /\ IsActiveMember(Created.authorId, c)
                    /\ IsActiveMember(Created.designatedUserId, c)]_vars

\* The last call was a createJobPost refused for want of a shared community,
\* in a state where users 1 and 2 are each an active member of a community
\* and of no community together.
C9_Witness ==
    /\ result = Outcome("createJobPost",
                        "Designated user is not accessible (not in any shared communities)")
    /\ UserCommunityIds(1) # {} /\ UserCommunityIds(2) # {}
    /\ UserCommunityIds(1) \cap UserCommunityIds(2) = {}

-----------------------------------------------------------------------------
(* Properties of updateJobPost and deleteJobPost (SpecEdit) *)

\* C11: updateJobPost and deleteJobPost called by a user who is not the
\* post's author return null / false and leave every stored post as it was;
\* deleteJobPost called by the author returns true and removes that post and
\* no other.
C11_OnlyAuthorUpdatesOrDeletes ==
    [][/\ result'.op = "updateJobPost" =>
            \A id \in 1..(MaxEditPosts + 1), u \in Posters, data \in UpdateJobPostRequests :
               (updateJobPost(id, u, data)
                  /\ (id \notin JobPostIds \/ jobPosts[id].authorId # u))
               => (result'.value = null /\ jobPosts' = jobPosts)
       /\ result'.op = "deleteJobPost" =>
            \A id \in 1..(MaxEditPosts + 1), u \in Posters :
               deleteJobPost(id, u) =>
                  IF id \in JobPostIds /\ jobPosts[id].authorId = u
                  THEN /\ result'.value = TRUE
                       /\ JobPostIds' = JobPostIds \ {id}
                       /\ \A j \in JobPostIds' : jobPosts'[j] = jobPosts[j]
                  ELSE /\ result'.value = FALSE
                       /\ jobPosts' = jobPosts]_vars

\* Two posts of two authors are stored; the author of the first deleted it
\* and the second is still stored.
C11_Witness ==
    /\ result = Returned("deleteJobPost", TRUE)
    /\ Len(jobPosts) = 2
    /\ JobPostIds = {2}
    /\ jobPosts[2].authorId = 2

\* C12: updateJobPost leaves type, authorId, communityId and designatedUserId
\* of every stored post as they were, whatever the request carries.
C12_UpdateKeepsScopeFields ==
    [][result'.op = "updateJobPost" =>
          /\ JobPostIds' = JobPostIds
          /\ \A id \in JobPostIds :
                /\ jobPosts'[id].type = jobPosts[id].type
                /\ jobPosts'[id].authorId = jobPosts[id].authorId
                /\ jobPosts'[id].communityId = jobPosts[id].communityId
                /\ jobPosts'[id].designatedUserId = jobPosts[id].designatedUserId]_vars

\* An update of a COMMUNITY post by its author has succeeded and returned
\* the post with category LADDER.
C12_Witness ==
    /\ result.op = "updateJobPost" /\ result.value # null
    /\ result.value.category = LADDER
    /\ \E id \in JobPostIds :
          /\ result.value.id = id
          /\ jobPosts[id].type = COMMUNITY /\ jobPosts[id].communityId # 0

-----------------------------------------------------------------------------
(* Properties of the community fees (SpecFees) *)

\* The fee the post of a request is to store: the one the request carries,
\* 0 included, and the community's default otherwise.
ExpectedFee(supplied, default) == IF supplied # NoValue THEN supplied ELSE default

\* C13: a stored COMMUNITY post holds, for each of the two community fees,
\* the value its request carried (0 included) and, when it carried none,
\* the default its community holds (0 included).
C13_CommunityFeesDefaulted ==
    [][CreatedJobPost =>
          \A data \in FeeCreateRequests :
             (createJobPost(1, data) /\ data.type = COMMUNITY) =>
                /\ Created.communityWorkFee =
                      ExpectedFee(data.communityWorkFee,
                                  communities[data.communityId].defaultWorkFee)
                /\ Created.communitySupportFee =
                      ExpectedFee(data.communitySupportFee,
                                  communities[data.communityId].defaultSupportFee)]_vars

-----------------------------------------------------------------------------
(* Properties of updateCommunity and deleteCommunity (SpecAdmin) *)

\* The user holds an active membership of the community with one of the roles.
HoldsRole(u, c, roles) ==
    \E m \in MemberIds : /\ members[m].userId = u /\ members[m].communityId = c
                         /\ members[m].isActive /\ members[m].role \in roles

\* C14: updateCommunity called by a user without an active OWNER or ADMIN
\* membership of the community, and deleteCommunity called by a user without
\* an active OWNER membership, end in an error and leave the community, its
\* memberships and the job posts as they were.
C14_CommunityMutationNeedsRole ==
    [][/\ result'.op = "updateCommunity" =>
            \A c \in 1..MaxMemberCommunities, u \in Users, data \in AdminUpdateRequests :
               (updateCommunity(c, u, data) /\ ~HoldsRole(u, c, {OWNER, ADMIN}))
               => (result'.err # "" /\ communities' = communities)
       /\ result'.op = "deleteCommunity" =>
            \A c \in 1..MaxMemberCommunities, u \in Users :
               (deleteCommunity(c, u) /\ ~HoldsRole(u, c, {OWNER}))
               => (result'.err # "" /\ UNCHANGED <<communities, members, jobPosts>>)]_vars

\* An update was refused while the community has an active MODERATOR, an
\* active MEMBER and its owner: the caller was one of the first two.
C14_Witness ==
    /\ result = Outcome("updateCommunity", "Insufficient permissions to update community")
    /\ \E c \in StoredCommunityIds :
          /\ HoldsRole(1, c, {OWNER})
          /\ HoldsRole(2, c, {MODERATOR})
          /\ HoldsRole(3, c, {MEMBER})

-----------------------------------------------------------------------------
(* Properties of the privileged roles (SpecMembers) *)

\* The active memberships of the community with role ADMIN or OWNER.
PrivilegedRows(c) ==
    {m \in MemberIds : /\ members[m].communityId = c /\ members[m].isActive
                       /\ members[m].role \in {ADMIN, OWNER}}

\* C15: an inviteUser or updateMemberRole call made by a user who does not
\* hold the active OWNER membership of the community produces no active
\* membership with role ADMIN or OWNER.
C15_OnlyOwnerGrantsAdmin ==
    [][result'.op \in {"inviteUser", "updateMemberRole"} =>
          \A c \in 1..MaxMemberCommunities, u \in Users, v \in UserIds,
             r \in CommunityRole \cup {""} :
             (/\ \/ inviteUser(u, c, v, r)
                 \/ r # "" /\ updateMemberRole(c, u, v, r)
              /\ ~HoldsRole(u, c, {OWNER}))
             => PrivilegedRows(c)' \subseteq PrivilegedRows(c)]_vars

\* C16: removeMember and updateMemberRole called by an ADMIN who is not
\* OWNER against a member whose role is ADMIN or OWNER, and called by a
\* MODERATOR or MEMBER against any target, end in an error and leave every
\* membership as it was.
C16_AdminCannotTouchAdminOrOwner ==
    [][result'.op \in {"removeMember", "updateMemberRole"} =>
          \A c \in 1..MaxMemberCommunities, u \in Users, v \in UserIds,
             r \in CommunityRole \cup {""} :
             (/\ \/ r = "" /\ removeMember(c, u, v)
                 \/ r # "" /\ updateMemberRole(c, u, v, r)
              /\ ~HoldsRole(u, c, {OWNER})
              /\ \/ HoldsRole(u, c, {ADMIN}) /\ HoldsRole(v, c, {ADMIN, OWNER})
                 \/ HoldsRole(u, c, {MODERATOR, MEMBER}) /\ ~HoldsRole(u, c, {ADMIN}))
             => (result'.err # "" /\ members' = members)]_vars

-----------------------------------------------------------------------------
(* Properties of the equipment selection of SKY posts (SpecSky) *)

\* C17: the creation of a SKY post fails exactly when the request carries no
\* equipmentType or carries an equipment length that is not a length of its
\* equipment type.
C17_SkyNeedsEquipmentTypeAndListedLength ==
    [][result'.op = "createJobPost" =>
          \A data \in SkyCreateRequests :
             createJobPost(1, data) =>
                (result'.err # "" <=>
                    \/ data.equipmentType = ""
                    \/ /\ data.equipmentLength # 0
                       /\ data.equipmentLength \notin equipmentLengths(data.equipmentType))]_vars

-----------------------------------------------------------------------------
(* Properties of the validation of create requests (SpecLadder) *)

\* The body is one the validation accepts once it carries work contents.
ValidWithWorkContents(body) ==
    createJobPostSchema([body EXCEPT !.workContents = <<"Equipment installation">>]) = {}

\* C18: a create request that is valid but for its work contents, absent or
\* empty, passes the validation exactly when its type is GLOBAL or
\* DESIGNATED, its category LADDER and its ladder type MOVING_GOODS.
C18_WorkContentsCarveOut ==
    [][(/\ result.op = "request"
        /\ result.body.workContents \in {<<>>, <<"">>}
        /\ ValidWithWorkContents(result.body))
       => (result'.err # "Validation error" <=>
              /\ result.body.type \in {GLOBAL, DESIGNATED}
              /\ result.body.category = LADDER
              /\ result.body.ladderType = <<MOVING_GOODS>>)]_vars

\* A DESIGNATED post of category LADDER and ladder type MOVING_GOODS is
\* stored without work contents.
C18_Witness ==
    /\ result = Outcome("createJobPost", "")
    /\ \E id \in JobPostIds :
          /\ jobPosts[id].type = DESIGNATED /\ jobPosts[id].category = LADDER
          /\ jobPosts[id].ladderType = MOVING_GOODS
          /\ jobPosts[id].workContents = ""

\* C19: the creation of a LADDER post of ladder type ON_SITE fails when the
\* request carries no work schedule and fails when it carries no ladder work
\* duration; a GLOBAL post of ladder type MOVING_GOODS that carries neither,
\* and is valid otherwise, is created.
C19_OnSiteNeedsScheduleAndDuration ==
    [][(result.op = "request" /\ result.body.category = LADDER) =>
          /\ (/\ result.body.ladderType = <<ON_SITE>>
              /\ \/ result.body.workSchedule = <<>>
                 \/ result.body.ladderWorkDuration = <<>>)
             => result'.err # ""
          /\ (/\ result.body.ladderType = <<MOVING_GOODS>>
              /\ result.body.type = GLOBAL
              /\ result.body.workSchedule = <<>>
              /\ result.body.ladderWorkDuration = <<>>
              /\ ValidWithWorkContents(result.body))
             => result'.err = ""]_vars

-----------------------------------------------------------------------------
(* Properties of the read after a create (SpecFees) *)

\* The payload holds the value of every field the request carried.
SameFields(data, payload) ==
    /\ payload # null
    /\ payload.type = data.type
    /\ payload.category = data.category
    /\ payload.communityId = data.communityId
    /\ payload.designatedUserId = data.designatedUserId
    /\ payload.equipmentType = data.equipmentType
    /\ payload.equipmentLength = data.equipmentLength
    /\ payload.ladderType = data.ladderType
    /\ payload.ladderWorkDuration = data.ladderWorkDuration
    /\ payload.workSchedule = data.workSchedule
    /\ payload.workContents = data.workContents
    /\ data.withFee # <<>> => payload.withFee = data.withFee[1]
    /\ data.communityWorkFee # NoValue =>
          payload.communityWorkFee = data.communityWorkFee
    /\ data.communitySupportFee # NoValue =>
          payload.communitySupportFee = data.communitySupportFee

\* C20: after createJobPost has stored the post of a request, getJobPostById
\* called by the author with the new id returns a payload that holds the
\* value of every field the request carried, a fee of 0 and a withFee of
\* false included.
C20_CreateThenReadRoundTrip ==
    [][CreatedJobPost =>
          \A data \in FeeCreateRequests, id \in 1..MaxFeePosts :
             (createJobPost(1, data) /\ id = Len(jobPosts) + 1) =>
                SameFields(data, getJobPostById(id, 1)')]_vars

-----------------------------------------------------------------------------
(* Errors *)

\* The operations of CommunityService that C21 names.
CommunityWriters ==
    {"createCommunity", "joinCommunity", "leaveCommunity", "inviteUser",
     "updateMemberRole", "removeMember"}

\* C21: an operation that ends in an error performs no write: a failed
\* createJobPost leaves the job posts unchanged, and a failed createCommunity,
\* joinCommunity, leaveCommunity, inviteUser, updateMemberRole or
\* removeMember leaves the communities and the membership rows unchanged.
C21_FailedCallWritesNothing ==
    [][result'.err # "" =>
          /\ result'.op = "createJobPost" => jobPosts' = jobPosts
          /\ result'.op \in CommunityWriters =>
                communities' = communities /\ members' = members]_vars

\* The messages of the errors thrown for a caller whose role does not
\* suffice, for a conflict with a stored row, and for an absent entity.
ForbiddenErrors ==
    {"Insufficient permissions to update community",
     "Only community owner can delete the community",
     "Insufficient permissions to update member roles",
     "Only owners can promote users to admin",
     "Insufficient permissions to remove members",
     "Only owners can remove admins"}

ConflictErrors ==
    {"User is already a member of this community", "Community slug already exists"}

NotFoundErrors == {"Community not found", "User not found"}

\* C22: failures are reported by kind: a community update, delete, role
\* change or removal attempted with insufficient role is answered 403, a
\* join by an active member or a duplicate slug 409, an absent entity 404 and
\* malformed input 400, so that no two of these causes share a status.
C22_FailuresReportedByKind ==
    /\ result.err \in ForbiddenErrors => ResponseStatus(result) = 403
    /\ result.err \in ConflictErrors => ResponseStatus(result) = 409
    /\ result.err \in NotFoundErrors => ResponseStatus(result) = 404
    /\ result.err = "Validation error" => ResponseStatus(result) = 400

-----------------------------------------------------------------------------
(* The creator's membership *)

\* The membership row createCommunity stored for community c: the first row
\* of the table ms that names c.
CreatorRow(ms, c) ==
    CHOOSE m \in DOMAIN ms :
        /\ ms[m].communityId = c
        /\ \A n \in DOMAIN ms : ms[n].communityId = c => m <= n

-----------------------------------------------------------------------------
(* The field group of a category *)

\* C24: after every sequence of createJobPost and updateJobPost calls that
\* passed validation, every stored post of category SKY has an equipment
\* type and every stored post of category LADDER has a luggage volume, a
\* work floor and an overall height; an update that changes the category
\* leaves the post with the field group of its new category.
C24_CategoryHasItsFieldGroup ==
    \A id \in JobPostIds :
        /\ jobPosts[id].category = SKY => jobPosts[id].equipmentType # ""
        /\ jobPosts[id].category = LADDER =>
              /\ jobPosts[id].luggageVolume # ""
              /\ jobPosts[id].workFloor # ""
              /\ jobPosts[id].overallHeight # ""

-----------------------------------------------------------------------------
(* Pricing *)

\* C25: every stored SKY post whose price was calculated (its request
\* carried an equipment type and a work schedule that validation accepted)
\* has a base price between 50000 and 5000000 KRW.
C25_BasePriceInRange ==
    \A id \in JobPostIds :
        (/\ jobPosts[id].category = SKY
         /\ jobPosts[id].equipmentType \in EquipmentTypes
         /\ jobPosts[id].workSchedule # "")
        => jobPosts[id].basePrice \in 50000..5000000

-----------------------------------------------------------------------------
(* Concurrent requests *)

\* The count of the active members of a community with a cap is within it.
CapKept ==
    \A c \in StoredCommunityIds :
        communities[c].maxMembers # 0 => MemberCount(c) <= communities[c].maxMembers

\* C26: while joinCommunity and inviteUser requests run at once, interleaved
\* at their database calls, the count of the active members of the community
\* never exceeds its cap, and no (user, community) pair has two membership
\* rows.
C26_ConcurrentJoinsKeepCap == CapKept /\ UniqueMemberships

-----------------------------------------------------------------------------
(* The role of a user who joins *)

\* C27: whenever joinCommunity succeeds, the membership the joining user
\* holds after it has role MEMBER, also when the user held ADMIN or MODERATOR
\* before leaving or being removed.
C27_JoinGivesMemberRole ==
    [][(result'.op = "joinCommunity" /\ result'.err = "") =>
          \A u \in Users, c \in StoredCommunityIds :
              joinCommunity(u, c) =>
                  \A m \in MemberIds :
                      (members'[m].userId = u /\ members'[m].communityId = c)
                      => members'[m].role = MEMBER]_vars

-----------------------------------------------------------------------------
(* Reads without a caller *)

\* C28: a read without a caller sees only GLOBAL posts: getJobPosts with no
\* userId returns only GLOBAL posts, whatever the filters, and getJobPostById
\* with no userId returns not-found for every COMMUNITY and DESIGNATED post.
C28_AnonymousReadsSeeOnlyGlobal ==
    /\ \A filters \in JobPostFilters :
          \A id \in getJobPosts(filters, 0) : jobPosts[id].type = GLOBAL
    /\ \A id \in JobPostIds :
          jobPosts[id].type \in {COMMUNITY, DESIGNATED} => getJobPostById(id, 0) = null

-----------------------------------------------------------------------------
(* The users a caller can designate *)

\* The number of times user v appears in a list of user ids.
Occurrences(list, v) == Cardinality({i \in DOMAIN list : list[i] = v})

\* C29: for every caller u and every other user v, v is in the result of
\* getAllUsersFromUserCommunities(u) exactly when validateDesignatedUserAccess
\* (u, v) accepts v; such a v appears exactly once, and u never appears.
C29_ListedUsersAreDesignatable ==
    \A u \in Users :
        /\ Occurrences(getAllUsersFromUserCommunities(u), u) = 0
        /\ \A v \in Users \ {u} :
              /\ Occurrences(getAllUsersFromUserCommunities(u), v) =
                    (IF validateDesignatedUserAccess(u, v) = "" THEN 1 ELSE 0)

\* Two users are active members of the same two communities, so that the
\* query returns two rows of each for the other.
C29_Witness ==
    \E u \in Users, v \in Users :
        /\ u # v
        /\ Cardinality({m \in MemberIds : members[m].userId = v /\ members[m].isActive
                                            /\ members[m].communityId \in UserCommunityIds(u)}) = 2
        /\ Occurrences(getAllUsersFromUserCommunities(u), v) = 1

\* C30: a request whose token does not carry the role ADMIN never changes
\* the stored role of a user from USER to ADMIN.
C30_OnlyAdminsMakeAdmins ==
    [][(result.op = "request" /\ "token" \in DOMAIN result.body
            /\ result.body.token.role # ADMIN)
          => \A u \in Users : users[u].role = USER => users'[u].role = USER]_vars

====
